---- MODULE Spec2Model ----
(***************************************************************************)
(* Model of export_scripts/classify_warps.py: the classification of every  *)
(* warp of the database as "door" or "carpet", and the inference of the    *)
(* direction a carpet warp requires; and of export_scripts/reprocess.py,    *)
(* the pipeline that runs the export scripts, copies the database and      *)
(* imports it.                                                             *)
(*                                                                         *)
(* Python values are modelled as follows.  None is the empty tuple where   *)
(* the other values are tuples (a fetched row, a map info triple) and a    *)
(* one-element tuple <<v>> stands for the integer v where None or an       *)
(* integer may occur (the feet tile id); None is the string "None" where   *)
(* the other values are strings.  A list is a sequence, so that the cell   *)
(* l[k] of Python is l[k + 1] here.  A dict is a function.                 *)
(***************************************************************************)
EXTENDS Integers, Sequences, FiniteSets, TLC

VARIABLES
    maps,               \* table maps: rows [id, name, width, height, is_overworld]
    warp_events,        \* table warp_events in id order: rows [map_id, x, y, dest_map, dest_warp_index]
    tiles_raw,          \* table tiles_raw: rows [map_id, x, y, tileset_id, block_index]
    blocksets,          \* table blocksets: rows [tileset_id, block_index, block_data]
    pc,                 \* "start", "loop", "done"
    warps,              \* main: the fetched join, a list of rows
    i,                  \* number of iterations of the for loop begun so far
    position,           \* main: locals of the loop body
    lookup_tileset,
    row,
    feet_tile_id,
    rule_tileset,       \* parameter tileset_id of the last call of is_door_or_warp_tile
    warp_type,
    direction,
    dir_method,
    dest_info,
    dest_warps,
    map_info_cache,
    warp_events_cache,
    results,
    summary,            \* the counts printed on stderr, <<>> before the report
    migration,          \* the UPDATE statements printed on stdout
    env,                \* reprocess.py: what exists on the machine
    at,                 \* reprocess.py: where the pipeline stands
    started,            \* the scripts started so far, in order
    succeeded,          \* the scripts that exited with status 0, in order
    copied,             \* shutil.copy2 has copied pokemon.db
    import_started,     \* go run ./cmd/import-phaser has been started
    import_succeeded,   \* and has exited with status 0
    printed_success,    \* the final message has been printed
    exit_status,        \* <<>> while reprocess.py runs, then <<status>>
    probe               \* a function of classify_warps.py applied to drawn inputs

db == <<maps, warp_events, tiles_raw, blocksets>>
locals == <<position, lookup_tileset, row, feet_tile_id, rule_tileset,
            warp_type, direction, dir_method, dest_info, dest_warps>>
pipeline == <<env, at, started, succeeded, copied, import_started,
              import_succeeded, printed_success, exit_status>>
classifier == <<maps, warp_events, tiles_raw, blocksets, pc, warps, i,
                position, lookup_tileset, row, feet_tile_id, rule_tileset,
                warp_type, direction, dir_method, dest_info, dest_warps,
                map_info_cache, warp_events_cache, results, summary,
                migration>>
vars == <<maps, warp_events, tiles_raw, blocksets, pc, warps, i, position,
          lookup_tileset, row, feet_tile_id, rule_tileset, warp_type,
          direction, dir_method, dest_info, dest_warps, map_info_cache,
          warp_events_cache, results, summary, migration, pipeline, probe>>

(***************************************************************************)
(* Bounds of the databases explored.                                       *)
(***************************************************************************)
MaxWidth == 2       \* width in blocks of the map whose size varies
MaxHeight == 3      \* height in blocks of the map whose size varies
MaxIndex == 3       \* largest dest_warp_index of the warp that varies
MaxSide == 5        \* largest side in tiles of a map a function is applied to
MaxCoord == 4       \* largest |x|, |y| the quadrant position is computed for
MaxTile == 255      \* largest tile id a function is applied to
MaxTileset == 24    \* largest tileset id a function is applied to

None == <<>>
NoneStr == "None"

(***************************************************************************)
(* The constant tables.                                                    *)
(***************************************************************************)
\* A variant in which the tileset 3 has a door tile that is no warp tile
DOOR_TILE_IDS_extra_door ==
    (0 :> <<\H1B, \H58>>) @@
    (3 :> <<\H3A, \H3B>>) @@
    (2 :> <<\H5E>>) @@
    (8 :> <<\H54>>) @@
    (9 :> <<\H3B>>) @@
    (10 :> <<\H3B>>) @@
    (12 :> <<\H3B>>) @@
    (13 :> <<\H1E>>) @@
    (18 :> <<\H1C, \H38, \H1A>>) @@
    (19 :> <<\H1A, \H1C, \H53>>) @@
    (20 :> <<\H34>>) @@
    (22 :> <<\H43, \H58, \H1B>>) @@
    (23 :> <<\H3B, \H1B>>)

DOOR_TILE_IDS ==
    (0 :> <<\H1B, \H58>>) @@
    (3 :> <<\H3A>>) @@
    (2 :> <<\H5E>>) @@
    (8 :> <<\H54>>) @@
    (9 :> <<\H3B>>) @@
    (10 :> <<\H3B>>) @@
    (12 :> <<\H3B>>) @@
    (13 :> <<\H1E>>) @@
    (18 :> <<\H1C, \H38, \H1A>>) @@
    (19 :> <<\H1A, \H1C, \H53>>) @@
    (20 :> <<\H34>>) @@
    (22 :> <<\H43, \H58, \H1B>>) @@
    (23 :> <<\H3B, \H1B>>)

WARP_TILE_IDS ==
    (0 :> <<\H1B, \H58>>) @@
    (1 :> <<\H3B, \H1A, \H1C>>) @@
    (2 :> <<\H5E>>) @@
    (3 :> <<\H5A, \H5C, \H3A>>) @@
    (4 :> <<\H3B, \H1A, \H1C>>) @@
    (5 :> <<\H4A>>) @@
    (6 :> <<\H5E>>) @@
    (7 :> <<\H4A>>) @@
    (8 :> <<\H54, \H5C, \H32>>) @@
    (9 :> <<\H3B, \H1A, \H1C>>) @@
    (10 :> <<\H3B, \H1A, \H1C>>) @@
    (11 :> <<\H13>>) @@
    (12 :> <<\H3B, \H1A, \H1C>>) @@
    (13 :> <<\H37, \H39, \H1E, \H4A>>) @@
    (14 :> <<>>) @@
    (15 :> <<\H1B, \H13>>) @@
    (16 :> <<\H15, \H55, \H04>>) @@
    (17 :> <<\H18, \H1A, \H22>>) @@
    (18 :> <<\H1A, \H1C, \H38>>) @@
    (19 :> <<\H1A, \H1C, \H53>>) @@
    (20 :> <<\H34>>) @@
    (21 :> <<>>) @@
    (22 :> <<\H43, \H58, \H20, \H1B, \H13>>) @@
    (23 :> <<\H1B, \H3B>>)

\* A variant in which the tileset 4 is remapped to the remapped tileset 2
TILESET_REMAP_chained ==
    (5 :> 7) @@ (2 :> 6) @@ (10 :> 12) @@ (9 :> 12) @@ (4 :> 2)

TILESET_REMAP ==
    (5 :> 7) @@ (2 :> 6) @@ (10 :> 12) @@ (9 :> 12) @@ (4 :> 1)

(***************************************************************************)
(* Python and SQL primitives.                                              *)
(***************************************************************************)
\* d.get(k, default)
DictGet(d, k, default) == IF k \in DOMAIN d THEN d[k] ELSE default

\* v in l, for a list l
InList(v, l) == \E k \in 1..Len(l) : l[k] = v

\* min(a, b, c, d)
Min4(a, b, c, d) ==
    CHOOSE m \in {a, b, c, d} : \A n \in {a, b, c, d} : m <= n

\* SQLite's a / b on integers, which truncates towards zero
SqlDiv(a, b) == IF a >= 0 THEN a \div b ELSE -((-a) \div b)

EmptyDict == [k \in {} |-> None]

(***************************************************************************)
(* The module's functions.                                                 *)
(***************************************************************************)
\* A variant that takes the top-left cell of each quadrant
feet_indices_top_left == (0 :> 0) @@ (1 :> 2) @@ (2 :> 8) @@ (3 :> 10)

feet_indices == (0 :> 4) @@ (1 :> 6) @@ (2 :> 12) @@ (3 :> 14)

\* A variant that takes the tile 0 for a missing tile
get_feet_tile_id_zero_missing(block_data, pos) ==
    LET idx == DictGet(feet_indices, pos, 0)
    IN  IF idx < Len(block_data) /\ block_data[idx + 1] # 0
        THEN <<block_data[idx + 1]>>
        ELSE None

get_feet_tile_id(block_data, pos) ==
    LET idx == feet_indices[pos]
    IN  IF idx < Len(block_data) THEN <<block_data[idx + 1]>> ELSE None

\* A variant that forgets the warp tiles
is_door_or_warp_tile_door_only(tile, tileset_id) ==
    InList(tile, DictGet(DOOR_TILE_IDS, tileset_id, <<>>))

\* A variant that takes the tiles of the overworld for a tileset without any
is_door_or_warp_tile_default_overworld(tile, tileset_id) ==
    LET door_tiles == DictGet(DOOR_TILE_IDS, tileset_id, DOOR_TILE_IDS[0])
        warp_tiles == DictGet(WARP_TILE_IDS, tileset_id, WARP_TILE_IDS[0])
    IN  IF InList(tile, door_tiles) THEN TRUE
        ELSE IF InList(tile, warp_tiles) THEN TRUE
        ELSE FALSE

is_door_or_warp_tile(tile, tileset_id) ==
    LET door_tiles == DictGet(DOOR_TILE_IDS, tileset_id, <<>>)
        warp_tiles == DictGet(WARP_TILE_IDS, tileset_id, <<>>)
    IN  IF InList(tile, door_tiles) THEN TRUE
        ELSE IF InList(tile, warp_tiles) THEN TRUE
        ELSE FALSE

\* A variant that tests the bottom edge before the top and the right edge
\* before the left
infer_carpet_direction_from_edge_bottom_first(x, y, map_width_tiles, map_height_tiles) ==
    LET dist_top == y
        dist_bottom == (map_height_tiles - 1) - y
        dist_left == x
        dist_right == (map_width_tiles - 1) - x
        min_dist == Min4(dist_top, dist_bottom, dist_left, dist_right)
    IN  IF y >= map_height_tiles - 1 THEN "DOWN"
        ELSE IF y <= 0 THEN "UP"
        ELSE IF x >= map_width_tiles - 1 THEN "RIGHT"
        ELSE IF x <= 0 THEN "LEFT"
        ELSE IF min_dist = dist_top THEN "UP"
        ELSE IF min_dist = dist_bottom THEN "DOWN"
        ELSE IF min_dist = dist_left THEN "LEFT"
        ELSE "RIGHT"

\* A variant that inverts the direction, as the primary method does
infer_carpet_direction_from_edge_inverted(x, y, map_width_tiles, map_height_tiles) ==
    LET dist_top == y
        dist_bottom == (map_height_tiles - 1) - y
        dist_left == x
        dist_right == (map_width_tiles - 1) - x
        min_dist == Min4(dist_top, dist_bottom, dist_left, dist_right)
    IN  IF y <= 0 THEN "DOWN"
        ELSE IF y >= map_height_tiles - 1 THEN "UP"
        ELSE IF x <= 0 THEN "RIGHT"
        ELSE IF x >= map_width_tiles - 1 THEN "LEFT"
        ELSE IF min_dist = dist_top THEN "DOWN"
        ELSE IF min_dist = dist_bottom THEN "UP"
        ELSE IF min_dist = dist_left THEN "RIGHT"
        ELSE "LEFT"

\* A variant that tests the left and right edges before the top and bottom
infer_carpet_direction_from_edge_left_first(x, y, map_width_tiles, map_height_tiles) ==
    LET dist_top == y
        dist_bottom == (map_height_tiles - 1) - y
        dist_left == x
        dist_right == (map_width_tiles - 1) - x
        min_dist == Min4(dist_top, dist_bottom, dist_left, dist_right)
    IN  IF x <= 0 THEN "LEFT"
        ELSE IF x >= map_width_tiles - 1 THEN "RIGHT"
        ELSE IF y <= 0 THEN "UP"
        ELSE IF y >= map_height_tiles - 1 THEN "DOWN"
        ELSE IF min_dist = dist_top THEN "UP"
        ELSE IF min_dist = dist_bottom THEN "DOWN"
        ELSE IF min_dist = dist_left THEN "LEFT"
        ELSE "RIGHT"

infer_carpet_direction_from_edge(x, y, map_width_tiles, map_height_tiles) ==
    LET at_top == y <= 0
        at_bottom == y >= map_height_tiles - 1
        at_left == x <= 0
        at_right == x >= map_width_tiles - 1
        dist_top == y
        dist_bottom == (map_height_tiles - 1) - y
        dist_left == x
        dist_right == (map_width_tiles - 1) - x
        min_dist == Min4(dist_top, dist_bottom, dist_left, dist_right)
    IN  IF at_top THEN "UP"
        ELSE IF at_bottom THEN "DOWN"
        ELSE IF at_left THEN "LEFT"
        ELSE IF at_right THEN "RIGHT"
        ELSE IF min_dist = dist_top THEN "UP"
        ELSE IF min_dist = dist_bottom THEN "DOWN"
        ELSE IF min_dist = dist_left THEN "LEFT"
        ELSE "RIGHT"

\* A variant that maps the nearest edge directly, as the fallback does
infer_carpet_direction_from_dest_direct(dest_warp_x, dest_warp_y, dest_map_width, dest_map_height) ==
    LET dist_top == dest_warp_y
        dist_bottom == (dest_map_height - 1) - dest_warp_y
        dist_left == dest_warp_x
        dist_right == (dest_map_width - 1) - dest_warp_x
        min_dist == Min4(dist_top, dist_bottom, dist_left, dist_right)
    IN  IF min_dist = dist_top THEN "UP"
        ELSE IF min_dist = dist_bottom THEN "DOWN"
        ELSE IF min_dist = dist_left THEN "LEFT"
        ELSE "RIGHT"

\* A variant that compares the left and right distances first
infer_carpet_direction_from_dest_left_first(dest_warp_x, dest_warp_y, dest_map_width, dest_map_height) ==
    LET dist_top == dest_warp_y
        dist_bottom == (dest_map_height - 1) - dest_warp_y
        dist_left == dest_warp_x
        dist_right == (dest_map_width - 1) - dest_warp_x
        min_dist == Min4(dist_top, dist_bottom, dist_left, dist_right)
    IN  IF min_dist = dist_left THEN "RIGHT"
        ELSE IF min_dist = dist_right THEN "LEFT"
        ELSE IF min_dist = dist_top THEN "DOWN"
        ELSE "UP"

infer_carpet_direction_from_dest(dest_warp_x, dest_warp_y, dest_map_width, dest_map_height) ==
    LET dist_top == dest_warp_y
        dist_bottom == (dest_map_height - 1) - dest_warp_y
        dist_left == dest_warp_x
        dist_right == (dest_map_width - 1) - dest_warp_x
        min_dist == Min4(dist_top, dist_bottom, dist_left, dist_right)
    IN  IF min_dist = dist_top THEN "DOWN"
        ELSE IF min_dist = dist_bottom THEN "UP"
        ELSE IF min_dist = dist_left THEN "RIGHT"
        ELSE "LEFT"

(***************************************************************************)
(* The queries of main.                                                    *)
(***************************************************************************)
\* A set of rows as a list, in some order
RECURSIVE SetToSeq(_)
SetToSeq(S) ==
    IF S = {} THEN <<>>
    ELSE LET r == CHOOSE s \in S : TRUE IN <<r>> \o SetToSeq(S \ {r})

\* SELECT id, width, height FROM maps WHERE name = ?, then fetchone()
SelectMap(map_name) ==
    LET found == {m \in maps : m.name = map_name}
    IN  IF found = {} THEN None
        ELSE LET m == CHOOSE r \in found : TRUE IN <<m.id, m.width, m.height>>

\* A variant with ORDER BY x, y
RECURSIVE SelectWarpEventsByPosition(_, _)
SelectWarpEventsByPosition(table, map_id) ==
    IF table = <<>> THEN <<>>
    ELSE LET w == Head(table)
             rest == SelectWarpEventsByPosition(Tail(table), map_id)
             Before(p) == p[1] < w.x \/ (p[1] = w.x /\ p[2] < w.y)
             NotBefore(p) == ~Before(p)
         IN  IF w.map_id = map_id
             THEN SelectSeq(rest, Before) \o << <<w.x, w.y>> >>
                  \o SelectSeq(rest, NotBefore)
             ELSE rest

\* SELECT x, y FROM warp_events WHERE map_id = ? ORDER BY id, then fetchall()
RECURSIVE SelectWarpEvents(_, _)
SelectWarpEvents(table, map_id) ==
    IF table = <<>> THEN <<>>
    ELSE LET w == Head(table)
         IN  (IF w.map_id = map_id THEN << <<w.x, w.y>> >> ELSE <<>>)
             \o SelectWarpEvents(Tail(table), map_id)

\* SELECT block_data FROM blocksets WHERE tileset_id = ? AND block_index = ?,
\* then fetchone()
SelectBlock(tileset_id, block_index) ==
    LET found == {b \in blocksets :
                    b.tileset_id = tileset_id /\ b.block_index = block_index}
    IN  IF found = {} THEN None
        ELSE << (CHOOSE b \in found : TRUE).block_data >>

\* The rows the join of the main query gives for the warp w
JoinRows(w) ==
    { [map_id |-> w.map_id, map_name |-> m.name, x |-> w.x, y |-> w.y,
       dest_map |-> w.dest_map, dest_warp_index |-> w.dest_warp_index,
       tileset_id |-> tr.tileset_id, block_index |-> tr.block_index,
       map_width |-> m.width, map_height |-> m.height,
       is_overworld |-> m.is_overworld] :
      <<m, tr>> \in { p \in maps \X tiles_raw :
                        /\ p[1].id = w.map_id
                        /\ p[2].map_id = w.map_id
                        /\ p[2].x = SqlDiv(w.x, 2)
                        /\ p[2].y = SqlDiv(w.y, 2) } }

RECURSIVE Join(_)
Join(table) ==
    IF table = <<>> THEN <<>>
    ELSE SetToSeq(JoinRows(Head(table))) \o Join(Tail(table))

\* ORDER BY w.map_id, w.x, w.y
OrderKeyLeq(a, b) ==
    \/ a.map_id < b.map_id
    \/ a.map_id = b.map_id /\ a.x < b.x
    \/ a.map_id = b.map_id /\ a.x = b.x /\ a.y <= b.y

RECURSIVE InsertRow(_, _)
InsertRow(r, s) ==
    IF s = <<>> THEN <<r>>
    ELSE IF OrderKeyLeq(r, Head(s)) THEN <<r>> \o s
    ELSE <<Head(s)>> \o InsertRow(r, Tail(s))

RECURSIVE OrderRows(_)
OrderRows(s) ==
    IF s = <<>> THEN <<>> ELSE InsertRow(Head(s), OrderRows(Tail(s)))

SelectWarps == OrderRows(Join(warp_events))

\* get_map_info: the value returned and the cache afterwards
get_map_info(map_name) ==
    IF map_name \in DOMAIN map_info_cache
    THEN [val |-> map_info_cache[map_name], cache |-> map_info_cache]
    ELSE LET r == SelectMap(map_name)
             v == IF r # None THEN <<r[1], r[2] * 2, r[3] * 2>> ELSE None
         IN  [val |-> v, cache |-> (map_name :> v) @@ map_info_cache]

\* A variant whose cache has one slot, whatever the key
get_warp_events_one_slot(map_id) ==
    IF DOMAIN warp_events_cache # {}
    THEN [val |-> warp_events_cache[CHOOSE k \in DOMAIN warp_events_cache : TRUE],
          cache |-> warp_events_cache]
    ELSE LET v == SelectWarpEvents(warp_events, map_id)
         IN  [val |-> v, cache |-> (map_id :> v) @@ warp_events_cache]

\* get_warp_events: the value returned and the cache afterwards
get_warp_events(map_id) ==
    IF map_id \in DOMAIN warp_events_cache
    THEN [val |-> warp_events_cache[map_id], cache |-> warp_events_cache]
    ELSE LET v == SelectWarpEvents(warp_events, map_id)
         IN  [val |-> v, cache |-> (map_id :> v) @@ warp_events_cache]

(***************************************************************************)
(* The steps of main's loop body.                                          *)
(***************************************************************************)
\* l[k] of Python, where a negative k counts from the end
PyIndex(l, k) == IF k >= 0 THEN l[k + 1] ELSE l[Len(l) + k + 1]

\* A remainder that takes the sign of a, as that of C does
TruncRem(a, b) == IF a >= 0 THEN a % b ELSE -((-a) % b)

\* A variant with the remainder of C
QuadrantPositionTruncated(x, y) == TruncRem(x, 2) + 2 * TruncRem(y, 2)

\* position = (x % 2) + 2 * (y % 2)
QuadrantPosition(x, y) == (x % 2) + 2 * (y % 2)

\* lookup_tileset = TILESET_REMAP.get(tileset_id, tileset_id)
LookupTileset(tileset_id) == DictGet(TILESET_REMAP, tileset_id, tileset_id)

\* A variant that passes the remapped tileset
RuleTilesetRemapped(tileset_id, lookup) == lookup

\* The tileset main passes to is_door_or_warp_tile
RuleTileset(tileset_id, lookup) == tileset_id

\* A variant that takes dest_warp_index for an index from 0
PrimaryResolvesFromZero(dest_warp_index, dw) ==
    0 <= dest_warp_index /\ dest_warp_index < Len(dw)

\* 1 <= dest_warp_index <= len(dest_warps)
PrimaryResolves(dest_warp_index, dw) ==
    1 <= dest_warp_index /\ dest_warp_index <= Len(dw)

\* dwx, dwy = dest_warps[dest_warp_index - 1]
DestWarp(dw, dest_warp_index) == PyIndex(dw, dest_warp_index - 1)

\* Variants that run the fallback always, and never
FallbackAlways(d) == TRUE
FallbackNever(d) == FALSE

\* if direction is None
FallbackNeeded(d) == d = NoneStr

\* A variant that keeps the direction of the warp before
InitialDirectionStale == direction

\* direction = None, at the head of the carpet branch
InitialDirection == NoneStr

\* The carpet branch: direction, dir_method, dest_info, dest_warps and the
\* two caches after it
InferDirection(w) ==
    LET mi == get_map_info(w.dest_map)
        di == mi.val
        we == IF di # None THEN get_warp_events(di[1])
              ELSE [val |-> dest_warps, cache |-> warp_events_cache]
        primary == di # None /\ PrimaryResolves(w.dest_warp_index, we.val)
        dw == DestWarp(we.val, w.dest_warp_index)
        d1 == IF primary
              THEN infer_carpet_direction_from_dest(dw[1], dw[2], di[2], di[3])
              ELSE InitialDirection
        m1 == IF primary THEN "dest_warp" ELSE NoneStr
        fallback == FallbackNeeded(d1)
    IN  [direction |-> IF fallback
                       THEN infer_carpet_direction_from_edge(
                                w.x, w.y, w.map_width * 2, w.map_height * 2)
                       ELSE d1,
         dir_method |-> IF fallback THEN "edge" ELSE m1,
         dest_info |-> di,
         dest_warps |-> we.val,
         map_info_cache |-> mi.cache,
         warp_events_cache |-> we.cache]

\* A variant that takes every warp of the overworld for a door
ResultOverworldAsDoor(w, feet, wt, d, m) ==
    [map_id |-> w.map_id, map_name |-> w.map_name, x |-> w.x, y |-> w.y,
     dest_map |-> w.dest_map, tileset_id |-> w.tileset_id,
     is_overworld |-> w.is_overworld, feet_tile_id |-> feet,
     warp_type |-> IF w.is_overworld THEN "door" ELSE wt,
     direction |-> IF w.is_overworld THEN NoneStr ELSE d,
     dir_method |-> IF w.is_overworld THEN NoneStr ELSE m,
     map_width_tiles |-> w.map_width * 2,
     map_height_tiles |-> w.map_height * 2]

\* The dict appended to results
Result(w, feet, wt, d, m) ==
    [map_id |-> w.map_id, map_name |-> w.map_name, x |-> w.x, y |-> w.y,
     dest_map |-> w.dest_map, tileset_id |-> w.tileset_id,
     is_overworld |-> w.is_overworld, feet_tile_id |-> feet,
     warp_type |-> wt, direction |-> d, dir_method |-> m,
     map_width_tiles |-> w.map_width * 2,
     map_height_tiles |-> w.map_height * 2]

\* A variant that keeps the last result only
AppendResultReplace(rs, r) == <<r>>

\* results.append
AppendResult(rs, r) == Append(rs, r)

\* From the classification of the feet tile to results.append
Classify(w, feet, lookup) ==
    LET rt == RuleTileset(w.tileset_id, lookup)
    IN  /\ rule_tileset' = rt
        /\ IF is_door_or_warp_tile(feet, rt)
           THEN /\ warp_type' = "door"
                /\ direction' = NoneStr
                /\ dir_method' = NoneStr
                /\ UNCHANGED <<dest_info, dest_warps, map_info_cache,
                               warp_events_cache>>
                /\ results' = AppendResult(results,
                                     Result(w, feet, "door", NoneStr, NoneStr))
           ELSE LET c == InferDirection(w)
                IN  /\ warp_type' = "carpet"
                    /\ direction' = c.direction
                    /\ dir_method' = c.dir_method
                    /\ dest_info' = c.dest_info
                    /\ dest_warps' = c.dest_warps
                    /\ map_info_cache' = c.map_info_cache
                    /\ warp_events_cache' = c.warp_events_cache
                    /\ results' = AppendResult(results,
                                         Result(w, feet, "carpet",
                                                c.direction, c.dir_method))

(***************************************************************************)
(* The databases explored.  The first warp, on MAP_A, varies with the size *)
(* of MAP_A, from one tile before its first row and column to one tile     *)
(* past its last; MAP_B has two warps, whose order of creation is not      *)
(* their order of position; MAP_C has none; LAST_MAP names no map.         *)
(***************************************************************************)
MapA(wd, ht) ==
    [id |-> 1, name |-> "MAP_A", width |-> wd, height |-> ht,
     is_overworld |-> TRUE]
MapB ==
    [id |-> 2, name |-> "MAP_B", width |-> 3, height |-> 2,
     is_overworld |-> FALSE]
MapC ==
    [id |-> 3, name |-> "MAP_C", width |-> 1, height |-> 1,
     is_overworld |-> FALSE]
DestNames == {"MAP_A", "MAP_B", "MAP_C", "LAST_MAP"}

WarpA(wx, wy, dm, ix) ==
    [map_id |-> 1, x |-> wx, y |-> wy, dest_map |-> dm, dest_warp_index |-> ix]
WarpB1 ==
    [map_id |-> 2, x |-> 5, y |-> 1, dest_map |-> "MAP_A", dest_warp_index |-> 1]
WarpB2 ==
    [map_id |-> 2, x |-> 0, y |-> 3, dest_map |-> "MAP_A", dest_warp_index |-> 2]

TileA(wx, wy, tc) ==
    [map_id |-> 1, x |-> SqlDiv(wx, 2), y |-> SqlDiv(wy, 2),
     tileset_id |-> tc[1], block_index |-> tc[2]]
TileB1 == [map_id |-> 2, x |-> 2, y |-> 0, tileset_id |-> 0, block_index |-> 1]
TileB2 == [map_id |-> 2, x |-> 0, y |-> 1, tileset_id |-> 0, block_index |-> 1]

\* (tileset_id, block_index) of the block under the first warp
\* (tileset 0 has no block 3, and its block 4 is cut short)
TileChoices ==
    {<<0, 1>>, <<2, 1>>, <<6, 1>>, <<0, 3>>, <<0, 4>>, <<14, 1>>, <<24, 1>>}

SampleBlocksets ==
    { [tileset_id |-> 0, block_index |-> 1, block_data |->
         <<\H01, \H03, \H01, \H03,  \H1B, \H02, \H58, \H02,
           \H1B, \H1B, \H58, \H1B,  \H01, \H1B, \H02, \H58>>],
      [tileset_id |-> 0, block_index |-> 4, block_data |->
         <<\H01, \H03, \H01, \H03,  \H1B, \H02, \H01, \H02,
           \H1B, \H1B, \H58, \H1B,  \H58>>],
      [tileset_id |-> 6, block_index |-> 1, block_data |->
         <<\H5E, \H5E, \H5E, \H5E,  \H01, \H5E, \H01, \H5E,
           \H01, \H01, \H01, \H01,  \H5E, \H01, \H5E, \H01>>],
      [tileset_id |-> 2, block_index |-> 1, block_data |->
         <<\H01, \H01, \H01, \H01,  \H5E, \H01, \H5E, \H01,
           \H5E, \H5E, \H5E, \H5E,  \H01, \H5E, \H01, \H5E>>],
      [tileset_id |-> 14, block_index |-> 1, block_data |->
         <<\H01, \H01, \H01, \H01,  \H1B, \H01, \H00, \H01,
           \H01, \H01, \H01, \H01,  \H5E, \H01, \H58, \H01>>],
      [tileset_id |-> 24, block_index |-> 1, block_data |->
         <<\H01, \H01, \H01, \H01,  \H1B, \H01, \H3B, \H01,
           \H01, \H01, \H01, \H01,  \H5E, \H01, \H58, \H01>>] }

(***************************************************************************)
(* A second family of databases, for the batch as a whole: each of the     *)
(* three warps stands on block 1 of tileset 0, on the missing block 3 or   *)
(* on the short block 4, MAP_A is numbered before or after MAP_B, and each *)
(* of the two maps is of the overworld or not.                             *)
(***************************************************************************)
BatchMapA(aid, ow) ==
    [id |-> aid, name |-> "MAP_A", width |-> 1, height |-> 1,
     is_overworld |-> ow]
BatchMapB(ow) ==
    [id |-> 2, name |-> "MAP_B", width |-> 3, height |-> 2,
     is_overworld |-> ow]
BatchMapIds == {1, 4}
BatchSpots == {<<0, 0>>, <<1, 1>>}
BatchTiles == {<<0, 1>>, <<0, 3>>, <<0, 4>>}

BatchWarpA(aid, p) ==
    [map_id |-> aid, x |-> p[1], y |-> p[2], dest_map |-> "MAP_B",
     dest_warp_index |-> 1]
BatchTile(mid, wx, wy, tc) ==
    [map_id |-> mid, x |-> SqlDiv(wx, 2), y |-> SqlDiv(wy, 2),
     tileset_id |-> tc[1], block_index |-> tc[2]]

\* The databases of the first family
VariedDatabase ==
    \E wd \in 0..MaxWidth, ht \in 0..MaxHeight :
       \E wx \in -1..(2 * wd), wy \in -1..(2 * ht),
          dm \in DestNames, ix \in -1..MaxIndex, tc \in TileChoices :
            /\ maps = {MapA(wd, ht), MapB, MapC}
            /\ warp_events = <<WarpA(wx, wy, dm, ix), WarpB1, WarpB2>>
            /\ tiles_raw = {TileA(wx, wy, tc), TileB1, TileB2}

\* The databases of the second family
BatchDatabase ==
    \E aid \in BatchMapIds, owA \in BOOLEAN, owB \in BOOLEAN,
       p \in BatchSpots, tcA \in BatchTiles, tcB1 \in BatchTiles,
       tcB2 \in BatchTiles :
         /\ maps = {BatchMapA(aid, owA), BatchMapB(owB), MapC}
         /\ warp_events = <<BatchWarpA(aid, p), WarpB1, WarpB2>>
         /\ tiles_raw = {BatchTile(aid, p[1], p[2], tcA),
                         BatchTile(2, WarpB1.x, WarpB1.y, tcB1),
                         BatchTile(2, WarpB2.x, WarpB2.y, tcB2)}

\* main before its first statement
Start ==
    /\ blocksets = SampleBlocksets
    /\ pc = "start"
    /\ warps = <<>>
    /\ i = 0
    /\ position = 0
    /\ lookup_tileset = 0
    /\ row = None
    /\ feet_tile_id = None
    /\ rule_tileset = 0
    /\ warp_type = NoneStr
    /\ direction = NoneStr
    /\ dir_method = NoneStr
    /\ dest_info = None
    /\ dest_warps = <<>>
    /\ map_info_cache = EmptyDict
    /\ warp_events_cache = EmptyDict
    /\ results = <<>>
    /\ summary = None
    /\ migration = <<>>

\* reprocess.py not run
PipelineIdle ==
    /\ env = [db_exists |-> FALSE, phaser_dir_exists |-> FALSE,
              server_dir_exists |-> FALSE, go_found |-> FALSE]
    /\ at = "idle"
    /\ started = <<>>
    /\ succeeded = <<>>
    /\ copied = FALSE
    /\ import_started = FALSE
    /\ import_succeeded = FALSE
    /\ printed_success = FALSE
    /\ exit_status = None

\* No function applied apart from a run
ProbeIdle == probe = [kind |-> "none", args |-> <<>>, out |-> None]

Init == (VariedDatabase \/ BatchDatabase) /\ Start /\ PipelineIdle /\ ProbeIdle

BatchInit == BatchDatabase /\ Start /\ PipelineIdle /\ ProbeIdle

(***************************************************************************)
(* The actions.                                                            *)
(***************************************************************************)
\* main, from the connection to results = []
FetchWarps ==
    /\ pc = "start"
    /\ pc' = "loop"
    /\ warps' = SelectWarps
    /\ UNCHANGED <<db, i, locals, map_info_cache, warp_events_cache, results,
                   summary, migration, pipeline, probe>>

\* A variant that leaves the loop at the first warp it skips
AfterSkipBreak(k, n) == n

\* continue: the number of warps taken from the list after the k-th of n
\* was skipped
AfterSkip(k, n) == k

\* One iteration of the for loop
LoopBody ==
    /\ pc = "loop"
    /\ i < Len(warps)
    /\ LET w == warps[i + 1]
           pos == QuadrantPosition(w.x, w.y)
           lookup == LookupTileset(w.tileset_id)
           r == SelectBlock(lookup, w.block_index)
           skipped == \/ r = None
                      \/ get_feet_tile_id(r[1], pos) = None
       IN  /\ i' = IF skipped THEN AfterSkip(i + 1, Len(warps)) ELSE i + 1
           /\ position' = pos
           /\ lookup_tileset' = lookup
           /\ row' = r
           /\ IF r = None
              THEN UNCHANGED <<feet_tile_id, rule_tileset, warp_type,
                               direction, dir_method, dest_info, dest_warps,
                               map_info_cache, warp_events_cache, results>>
              ELSE LET feet == get_feet_tile_id(r[1], pos)
                   IN  /\ feet_tile_id' = feet
                       /\ IF feet = None
                          THEN UNCHANGED <<rule_tileset, warp_type, direction,
                                           dir_method, dest_info, dest_warps,
                                           map_info_cache, warp_events_cache,
                                           results>>
                          ELSE Classify(w, feet[1], lookup)
    /\ UNCHANGED <<db, pc, warps, summary, migration, pipeline, probe>>

\* A variant that counts every result
CountResultsAll(field, value) == Len(results)

\* The number of results r with r[field] = value
CountResults(field, value) ==
    Cardinality({k \in 1..Len(results) : results[k][field] = value})

\* The UPDATE statement of a carpet warp
UpdateOf(r) ==
    IF r.is_overworld
    THEN [source_map_id |-> 9999, join_map_id |-> r.map_id,
          local_x |-> r.x, local_y |-> r.y, warp_type |-> "carpet",
          warp_direction |-> r.direction]
    ELSE [source_map_id |-> r.map_id, join_map_id |-> 0,
          local_x |-> r.x, local_y |-> r.y, warp_type |-> "carpet",
          warp_direction |-> r.direction]

\* A variant that takes every carpet for an interior one
InteriorCarpetAnyMap(r) == r.warp_type = "carpet"

InteriorCarpet(r) == r.warp_type = "carpet" /\ ~r.is_overworld
OverworldCarpet(r) == r.warp_type = "carpet" /\ r.is_overworld

RECURSIVE Updates(_)
Updates(rs) ==
    IF rs = <<>> THEN <<>> ELSE <<UpdateOf(Head(rs))>> \o Updates(Tail(rs))

\* main, after the loop: the summary and the migration
Report ==
    /\ pc = "loop"
    /\ i = Len(warps)
    /\ pc' = "done"
    /\ summary' = << [total |-> Len(results),
                      door_count |-> CountResults("warp_type", "door"),
                      carpet_count |-> CountResults("warp_type", "carpet"),
                      dest_count |-> CountResults("dir_method", "dest_warp"),
                      edge_count |-> CountResults("dir_method", "edge")] >>
    /\ migration' = Updates(SelectSeq(results, InteriorCarpet))
                    \o Updates(SelectSeq(results, OverworldCarpet))
    /\ UNCHANGED <<db, warps, i, locals, map_info_cache, warp_events_cache,
                   results, pipeline, probe>>

Next == FetchWarps \/ LoopBody \/ Report

Spec == Init /\ [][Next]_vars

\* The run over the second family of databases alone; the interpreter runs
\* main's statements one after the other until main returns
FairSpec == BatchInit /\ [][Next]_vars /\ WF_vars(Next)

(***************************************************************************)
(* reprocess.py: the export scripts run one after the other, then the copy *)
(* of pokemon.db and the import into MySQL.  env is how the machine is     *)
(* found: pokemon.db, the phaser directory and the server directory of     *)
(* CaptureQuest exist or not, and the go command is found or not.          *)
(***************************************************************************)
\* A variant of the list with the tiles created before the zone coordinates
scripts_tiles_before_coordinates ==
    << "export_map.py", "export_warps.py", "create_zones_and_tiles.py",
       "update_zone_coordinates.py", "export_objects.py",
       "update_object_coordinates.py", "export_pokemon.py",
       "export_moves.py", "export_items.py", "export_text.py",
       "export_learnsets.py", "export_wild_encounters.py",
       "export_trainers.py", "export_hidden_objects.py",
       "export_map_scripts.py", "generate_mysql_seed.py" >>

scripts ==
    << "export_map.py", "export_warps.py", "update_zone_coordinates.py",
       "create_zones_and_tiles.py", "export_objects.py",
       "update_object_coordinates.py", "export_pokemon.py",
       "export_moves.py", "export_items.py", "export_text.py",
       "export_learnsets.py", "export_wild_encounters.py",
       "export_trainers.py", "export_hidden_objects.py",
       "export_map_scripts.py", "generate_mysql_seed.py" >>

Environments ==
    [db_exists : BOOLEAN, phaser_dir_exists : BOOLEAN,
     server_dir_exists : BOOLEAN, go_found : BOOLEAN]

\* No database is read by reprocess.py itself
NoDatabase == maps = {} /\ warp_events = <<>> /\ tiles_raw = {}

PipelineInit ==
    /\ NoDatabase /\ Start /\ ProbeIdle
    /\ env \in Environments
    /\ at = "main"
    /\ started = <<>>
    /\ succeeded = <<>>
    /\ copied = FALSE
    /\ import_started = FALSE
    /\ import_succeeded = FALSE
    /\ printed_success = FALSE
    /\ exit_status = None

\* A variant of the loop that goes on to the next script after a failure
ScriptFailedGoOn == /\ at' = "main"
                    /\ exit_status' = exit_status

\* except subprocess.CalledProcessError: sys.exit(1)
ScriptFailed == /\ at' = "exited"
                /\ exit_status' = <<1>>

\* main's for loop enters run_script: subprocess.run starts the next script
run_script ==
    /\ at = "main"
    /\ Len(started) < Len(scripts)
    /\ started' = Append(started, scripts[Len(started) + 1])
    /\ at' = "script"
    /\ UNCHANGED <<env, succeeded, copied, import_started, import_succeeded,
                   printed_success, exit_status, classifier, probe>>

\* The script exits: with status 0 run_script returns, otherwise check=True
\* raises CalledProcessError
ScriptExits ==
    /\ at = "script"
    /\ \E status \in {0, 1} :
          IF status = 0
          THEN /\ succeeded' = Append(succeeded, started[Len(started)])
               /\ at' = "main"
               /\ exit_status' = exit_status
          ELSE /\ succeeded' = succeeded
               /\ ScriptFailed
    /\ UNCHANGED <<env, started, copied, import_started, import_succeeded,
                   printed_success, classifier, probe>>

\* A variant of main that ignores what copy_db returns
AfterCopySkippedImport == "import"

\* if copy_db(): where main goes on when copy_db returned False
AfterCopySkipped == "finish"

\* copy_db, and the branch main takes on what it returns; shutil.copy2 may
\* raise, which no handler catches
copy_db ==
    /\ at = "main"
    /\ Len(started) = Len(scripts)
    /\ IF ~env.db_exists
       THEN /\ at' = "exited" /\ exit_status' = <<1>> /\ copied' = FALSE
       ELSE IF ~env.phaser_dir_exists
       THEN /\ at' = AfterCopySkipped /\ exit_status' = exit_status
            /\ copied' = FALSE
       ELSE \E copy_raises \in BOOLEAN :
              IF copy_raises
              THEN /\ at' = "exited" /\ exit_status' = <<1>>
                   /\ copied' = FALSE
              ELSE /\ at' = "import" /\ exit_status' = exit_status
                   /\ copied' = TRUE
    /\ UNCHANGED <<env, started, succeeded, import_started, import_succeeded,
                   printed_success, classifier, probe>>

\* run_mysql_import up to subprocess.run
run_mysql_import ==
    /\ at = "import"
    /\ IF ~env.server_dir_exists
       THEN at' = "finish" /\ import_started' = FALSE
       ELSE IF ~env.go_found
       THEN at' = "finish" /\ import_started' = FALSE
       ELSE at' = "go" /\ import_started' = TRUE
    /\ UNCHANGED <<env, started, succeeded, copied, import_succeeded,
                   printed_success, exit_status, classifier, probe>>

\* go run ./cmd/import-phaser exits
ImportExits ==
    /\ at = "go"
    /\ \E status \in {0, 1} :
          IF status = 0
          THEN /\ import_succeeded' = TRUE /\ at' = "finish"
               /\ exit_status' = exit_status
          ELSE /\ import_succeeded' = FALSE /\ at' = "exited"
               /\ exit_status' = <<1>>
    /\ UNCHANGED <<env, started, succeeded, copied, import_started,
                   printed_success, classifier, probe>>

\* The last lines of main
Finish ==
    /\ at = "finish"
    /\ printed_success' = TRUE
    /\ exit_status' = <<0>>
    /\ at' = "exited"
    /\ UNCHANGED <<env, started, succeeded, copied, import_started,
                   import_succeeded, classifier, probe>>

PipelineNext ==
    run_script \/ ScriptExits \/ copy_db \/ run_mysql_import \/ ImportExits
    \/ Finish

PipelineSpec == PipelineInit /\ [][PipelineNext]_vars

(***************************************************************************)
(* The functions of classify_warps.py applied to inputs drawn apart from   *)
(* any database: probe holds the function, its arguments and, once it has  *)
(* been applied, what it returned.                                         *)
(***************************************************************************)
EdgeProbes ==
    {[kind |-> "edge", args |-> <<x, y, mw, mh>>, out |-> None] :
        <<x, y, mw, mh>> \in
            {q \in (-1..MaxSide) \X (-1..MaxSide) \X (1..MaxSide) \X (1..MaxSide) :
                q[1] <= q[3] /\ q[2] <= q[4]}}
TileProbes ==
    {[kind |-> "tile", args |-> <<tile, t>>, out |-> None] :
        tile \in 0..MaxTile, t \in 0..MaxTileset}
RemapProbes ==
    {[kind |-> "remap", args |-> <<t>>, out |-> None] : t \in 0..MaxTileset}
QuadrantProbes ==
    {[kind |-> "quadrant", args |-> <<x, y>>, out |-> None] :
        x \in (-MaxCoord)..MaxCoord, y \in (-MaxCoord)..MaxCoord}

ProbeInit ==
    /\ NoDatabase /\ Start /\ PipelineIdle
    /\ probe \in EdgeProbes \cup TileProbes \cup RemapProbes
                  \cup QuadrantProbes

\* infer_carpet_direction_from_edge(x, y, map_width_tiles, map_height_tiles)
ApplyEdge ==
    /\ probe.kind = "edge"
    /\ probe.out = None
    /\ probe' = [probe EXCEPT !.out =
                    << infer_carpet_direction_from_edge(
                          probe.args[1], probe.args[2],
                          probe.args[3], probe.args[4]) >>]
    /\ UNCHANGED <<classifier, pipeline>>

\* is_door_or_warp_tile(tile, tileset_id)
ApplyTile ==
    /\ probe.kind = "tile"
    /\ probe.out = None
    /\ probe' = [probe EXCEPT !.out =
                    << is_door_or_warp_tile(probe.args[1], probe.args[2]) >>]
    /\ UNCHANGED <<classifier, pipeline>>

\* lookup_tileset = TILESET_REMAP.get(tileset_id, tileset_id)
ApplyRemap ==
    /\ probe.kind = "remap"
    /\ probe.out = None
    /\ probe' = [probe EXCEPT !.out = << LookupTileset(probe.args[1]) >>]
    /\ UNCHANGED <<classifier, pipeline>>

\* idx = feet_indices[position]: <<idx>>, or None where Python raises
\* KeyError
FeetIndexOf(pos) ==
    IF pos \in DOMAIN feet_indices THEN <<feet_indices[pos]>> ELSE None

\* position = (x % 2) + 2 * (y % 2), then idx = feet_indices[position]
ApplyQuadrant ==
    /\ probe.kind = "quadrant"
    /\ probe.out = None
    /\ probe' = [probe EXCEPT !.out =
                    << QuadrantPosition(probe.args[1], probe.args[2]),
                       FeetIndexOf(QuadrantPosition(probe.args[1],
                                                    probe.args[2])) >>]
    /\ UNCHANGED <<classifier, pipeline>>

ProbeNext == ApplyEdge \/ ApplyTile \/ ApplyRemap \/ ApplyQuadrant

ProbeSpec == ProbeInit /\ [][ProbeNext]_vars

(***************************************************************************)
(* What the claims speak of: the warp of the last iteration, the edges of  *)
(* a map and the destination as the database holds it.                     *)
(***************************************************************************)
Directions == {"UP", "DOWN", "LEFT", "RIGHT"}
EdgeOrder == <<"top", "bottom", "left", "right">>
EdgeNames == {EdgeOrder[k] : k \in 1..4}

EdgeDistance(e, px, py, w, h) ==
    CASE e = "top" -> py
      [] e = "bottom" -> (h - 1) - py
      [] e = "left" -> px
      [] e = "right" -> (w - 1) - px

\* The edges at the least distance from (px, py) on a map of w by h tiles
NearestEdges(px, py, w, h) ==
    {e \in EdgeNames :
        \A f \in EdgeNames :
            EdgeDistance(e, px, py, w, h) <= EdgeDistance(f, px, py, w, h)}

\* The first of them in the order top, bottom, left, right
FirstNearestEdge(px, py, w, h) ==
    EdgeOrder[CHOOSE k \in 1..4 :
                /\ EdgeOrder[k] \in NearestEdges(px, py, w, h)
                /\ \A j \in 1..(k - 1) :
                     EdgeOrder[j] \notin NearestEdges(px, py, w, h)]

OppositeOf(e) ==
    CASE e = "top" -> "DOWN" [] e = "bottom" -> "UP"
      [] e = "left" -> "RIGHT" [] e = "right" -> "LEFT"

DirectOf(e) ==
    CASE e = "top" -> "UP" [] e = "bottom" -> "DOWN"
      [] e = "left" -> "LEFT" [] e = "right" -> "RIGHT"

InsideMap(px, py, w, h) == 0 <= px /\ px <= w - 1 /\ 0 <= py /\ py <= h - 1

\* The warp of the last iteration, and its own map in tiles
Cur == warps[i]
OwnWidth == Cur.map_width * 2
OwnHeight == Cur.map_height * 2

\* The last iteration found the block and the feet tile, and appended a result
Classified == i >= 1 /\ row # None /\ feet_tile_id # None
LastResult == results[Len(results)]
Carpet == Classified /\ warp_type = "carpet"

\* The destination of the warp of the last iteration, read from the tables
DestMaps == {m \in maps : m.name = Cur.dest_map}
DestMap == CHOOSE m \in DestMaps : TRUE
OnDestMap(w) == w.map_id = DestMap.id
DestList == SelectSeq(warp_events, OnDestMap)
DestResolves ==
    /\ DestMaps # {}
    /\ 1 <= Cur.dest_warp_index
    /\ Cur.dest_warp_index <= Len(DestList)
DestRow == DestList[Cur.dest_warp_index]
DestWidth == DestMap.width * 2
DestHeight == DestMap.height * 2

FeetInRuleTables ==
    \/ InList(feet_tile_id[1], DictGet(DOOR_TILE_IDS, Cur.tileset_id, <<>>))
    \/ InList(feet_tile_id[1], DictGet(WARP_TILE_IDS, Cur.tileset_id, <<>>))

(***************************************************************************)
(* The claims.                                                             *)
(***************************************************************************)

\* C1 (door precedence): when the feet tile of a warp is resolved and is in
\* door_tiles or warp_tiles of the warp's tileset, the result is door with
\* no direction and no method, whatever the destination data are; tileset 0
\* with feet tile 0x1B is such a door.
C1_DoorPrecedence ==
    /\ is_door_or_warp_tile(\H1B, 0)
    /\ (Classified /\ FeetInRuleTables) =>
          /\ warp_type = "door" /\ direction = NoneStr /\ dir_method = NoneStr
          /\ LastResult.warp_type = "door"
          /\ LastResult.direction = NoneStr
          /\ LastResult.dir_method = NoneStr
          /\ LastResult.x = Cur.x /\ LastResult.y = Cur.y
          /\ LastResult.map_id = Cur.map_id

\* A door on tileset 0 with feet tile 0x1B whose destination would resolve
C1_Witness ==
    /\ Classified /\ FeetInRuleTables
    /\ Cur.tileset_id = 0 /\ feet_tile_id = <<\H1B>>
    /\ DestResolves
    /\ warp_type = "door"

C3_FallbackNearestEdgeEverywhere ==
    (Carpet /\ dir_method = "edge") =>
        \E e \in NearestEdges(Cur.x, Cur.y, OwnWidth, OwnHeight) :
            direction = DirectOf(e)

\* C3 as amended: whenever the fallback produced the direction of a warp
\* that lies inside its own map, it is the direction of an edge of that map
\* nearest to the warp, mapped directly.
C3_FallbackNearestEdgeInside ==
    (Carpet /\ dir_method = "edge"
        /\ InsideMap(Cur.x, Cur.y, OwnWidth, OwnHeight)) =>
        /\ \E e \in NearestEdges(Cur.x, Cur.y, OwnWidth, OwnHeight) :
              direction = DirectOf(e)
        /\ LastResult.direction = direction

\* A fallback at an interior position nearest to the left edge only
C3_Witness ==
    /\ Carpet /\ dir_method = "edge"
    /\ InsideMap(Cur.x, Cur.y, OwnWidth, OwnHeight)
    /\ Cur.x > 0 /\ Cur.y > 0
    /\ NearestEdges(Cur.x, Cur.y, OwnWidth, OwnHeight) = {"left"}
    /\ direction = "LEFT"

\* C4 (graceful degradation): a carpet warp whose destination map does not
\* resolve, or whose dest_warp_index is below 1 or above the number of
\* warps of the destination map, has method edge and the direction of the
\* fallback on its own position; index 0 does not select the last warp.
C4_GracefulDegradation ==
    (Carpet /\ ~DestResolves) =>
        /\ direction \in Directions
        /\ dir_method = "edge"
        /\ direction = infer_carpet_direction_from_edge(
                           Cur.x, Cur.y, OwnWidth, OwnHeight)
        /\ LastResult.direction = direction
        /\ LastResult.dir_method = "edge"

\* Index 0 on a destination map that has warps, the last of which would
\* have given another direction
C4_Witness ==
    /\ Carpet /\ DestMaps # {} /\ Cur.dest_warp_index = 0
    /\ Len(DestList) >= 1
    /\ dir_method = "edge"
    /\ LET last == DestList[Len(DestList)]
       IN  direction # infer_carpet_direction_from_dest(
                           last.x, last.y, DestWidth, DestHeight)

TiedNearest(px, py, w, h) == Cardinality(NearestEdges(px, py, w, h)) >= 2

C7_HardEdgePriority ==
    /\ infer_carpet_direction_from_edge(0, 0, 10, 18) = "UP"
    /\ infer_carpet_direction_from_edge(0, 5, 10, 18) = "LEFT"
    /\ (Carpet /\ dir_method = "edge") =>
          /\ Cur.y <= 0 => direction = "UP"
          /\ (Cur.y > 0 /\ Cur.y >= OwnHeight - 1) => direction = "DOWN"
          /\ (Cur.y > 0 /\ Cur.y < OwnHeight - 1 /\ Cur.x <= 0) =>
                direction = "LEFT"
          /\ (Cur.y > 0 /\ Cur.y < OwnHeight - 1 /\ Cur.x > 0
                /\ Cur.x >= OwnWidth - 1) => direction = "RIGHT"

\* A fallback on the bottom-left corner of a map more than one tile high
C7_Witness ==
    /\ Carpet /\ dir_method = "edge"
    /\ Cur.x = 0 /\ Cur.y = OwnHeight - 1 /\ Cur.y > 0
    /\ direction = "DOWN"

\* C8 (result shape): every result has warp_type door or carpet; its
\* direction is null exactly when it is a door and is otherwise one of UP,
\* DOWN, LEFT, RIGHT; its method is null exactly when it is a door and is
\* otherwise dest_warp or edge.
C8_ResultShape ==
    \A k \in 1..Len(results) :
        LET r == results[k]
        IN  /\ r.warp_type \in {"door", "carpet"}
            /\ (r.direction = NoneStr) <=> (r.warp_type = "door")
            /\ r.direction \in Directions \cup {NoneStr}
            /\ (r.dir_method = NoneStr) <=> (r.warp_type = "door")
            /\ r.dir_method \in {"dest_warp", "edge", NoneStr}

\* A carpet result of a warp outside a map of no tiles
C8_Witness ==
    /\ pc = "done"
    /\ \E k \in 1..Len(results) :
          /\ results[k].warp_type = "carpet"
          /\ results[k].map_width_tiles = 0
          /\ results[k].map_height_tiles = 0
          /\ results[k].x = -1
          /\ results[k].direction \in Directions

\* The block of the warp of the last iteration, read from the tables
RemapOf(t) == IF t \in DOMAIN TILESET_REMAP THEN TILESET_REMAP[t] ELSE t
GraphicsBlocks ==
    {b \in blocksets : /\ b.tileset_id = RemapOf(Cur.tileset_id)
                       /\ b.block_index = Cur.block_index}

\* C9 (remap asymmetry): the block is looked up under the remapped tileset
\* (identity by default) and the warp's block index, while the membership
\* test of the feet tile is made with the warp's original tileset id; the
\* tables of a remap target are not consulted for a remapped tileset.
C9_RemapAsymmetry ==
    /\ i >= 1 =>
          /\ lookup_tileset = RemapOf(Cur.tileset_id)
          /\ (row = None) <=> (GraphicsBlocks = {})
          /\ row # None => \E b \in GraphicsBlocks : row = <<b.block_data>>
    /\ Classified =>
          /\ rule_tileset = Cur.tileset_id
          /\ Cur.tileset_id \in DOMAIN TILESET_REMAP =>
                rule_tileset # TILESET_REMAP[Cur.tileset_id]
          /\ (warp_type = "door") <=> FeetInRuleTables

\* A warp of the remapped tileset 2 classified on the block of tileset 6
C9_Witness ==
    /\ Classified
    /\ Cur.tileset_id = 2 /\ lookup_tileset = 6 /\ rule_tileset = 2
    /\ \E b \in blocksets : b.tileset_id = 6 /\ row = <<b.block_data>>
    /\ warp_type = "door"

FeetCell(pos) == CASE pos = 0 -> 4 [] pos = 1 -> 6 [] pos = 2 -> 12 [] pos = 3 -> 14

\* C10 (feet-tile resolution): with a block of 16 cells found, the feet tile
\* is the cell 4, 6, 12 or 14 of the block as (x mod 2) + 2*(y mod 2) is 0,
\* 1, 2 or 3, and the classification follows from that cell alone.
C10_FeetTile ==
    (i >= 1 /\ row # None /\ Len(row[1]) = 16) =>
        /\ position = (Cur.x % 2) + 2 * (Cur.y % 2)
        /\ position \in 0..3
        /\ feet_tile_id = << row[1][FeetCell(position) + 1] >>
        /\ LastResult.feet_tile_id = row[1][FeetCell(position) + 1]
        /\ (warp_type = "door") <=>
              is_door_or_warp_tile(row[1][FeetCell(position) + 1],
                                   Cur.tileset_id)

\* A warp in the bottom-right quadrant, whose feet tile is cell 14 and whose
\* neighbouring cells are of the other kind
C10_Witness ==
    /\ Classified /\ Len(row[1]) = 16
    /\ Cur.x % 2 = 1 /\ Cur.y % 2 = 1
    /\ feet_tile_id = << row[1][15] >>
    /\ warp_type = "carpet"
    /\ is_door_or_warp_tile(row[1][16], Cur.tileset_id)
    /\ is_door_or_warp_tile(row[1][11], Cur.tileset_id)

(***************************************************************************)
(* A warp of the list as the tables alone describe it: its block, the cell *)
(* under the feet, and whether the loop must skip it.                      *)
(***************************************************************************)
BlocksOf(w) ==
    {b \in blocksets : /\ b.tileset_id = RemapOf(w.tileset_id)
                       /\ b.block_index = w.block_index}
BlockOf(w) == (CHOOSE b \in BlocksOf(w) : TRUE).block_data
CellOf(w) == FeetCell((w.x % 2) + 2 * (w.y % 2))
MustSkip(w) == BlocksOf(w) = {} \/ CellOf(w) >= Len(BlockOf(w))
FeetOf(w) == BlockOf(w)[CellOf(w) + 1]
Kept(n) == {k \in 1..n : ~MustSkip(warps[k])}

\* C11 (skipping): a warp is skipped, with no result appended, exactly when
\* there is no block for (remap(tileset_id), block_index) or the feet index
\* is not below the length of the block; every other warp is classified,
\* with the cell of the block as its feet tile, a cell holding 0 included.
C11_SkipExactly ==
    (pc = "loop" /\ i >= 1) =>
        /\ Classified <=> ~MustSkip(Cur)
        /\ (row = None) <=> (BlocksOf(Cur) = {})
        /\ (row # None /\ feet_tile_id = None)
              => CellOf(Cur) >= Len(BlockOf(Cur))
        /\ Len(results) = Cardinality(Kept(i))
        /\ ~MustSkip(Cur) =>
              /\ feet_tile_id = <<FeetOf(Cur)>>
              /\ LastResult.feet_tile_id = FeetOf(Cur)
              /\ LastResult.map_id = Cur.map_id
              /\ LastResult.x = Cur.x /\ LastResult.y = Cur.y
              /\ LastResult.warp_type \in {"door", "carpet"}

\* A warp whose feet tile is 0, classified
C11_Witness ==
    /\ pc = "loop" /\ i >= 1
    /\ ~MustSkip(Cur)
    /\ FeetOf(Cur) = 0
    /\ feet_tile_id = <<0>>
    /\ Len(results) = Cardinality(Kept(i))
    /\ LastResult.feet_tile_id = 0
    /\ LastResult.warp_type = "carpet"

\* The warps the loop must keep among the first n, in the order of the list
NotSkipped(w) == ~MustSkip(w)
KeptSeq(n) == SelectSeq(SubSeq(warps, 1, n), NotSkipped)
SameWarp(r, w) ==
    /\ r.map_id = w.map_id /\ r.x = w.x /\ r.y = w.y
    /\ r.dest_map = w.dest_map /\ r.tileset_id = w.tileset_id

\* After i warps, results holds one result for each kept warp, in order
C12_State ==
    /\ i <= Len(warps)
    /\ pc = "done" => i = Len(warps) /\ summary # None
    /\ pc # "start" =>
          /\ Len(results) = Len(KeptSeq(i))
          /\ \A k \in 1..Len(results) : SameWarp(results[k], KeptSeq(i)[k])

\* Every step takes the warps, takes the next warp of the list whether it
\* is skipped or not, or ends the run once the list is exhausted
C12_Step ==
    \/ pc = "start" /\ pc' = "loop" /\ i' = 0
    \/ pc = "loop" /\ pc' = "loop" /\ i < Len(warps) /\ i' = i + 1
    \/ pc = "loop" /\ pc' = "done" /\ i = Len(warps) /\ i' = i

\* C12 (failures do not abort the batch): whatever warps of the list have
\* no block or a feet index out of range, the run takes every warp of the
\* list once, in order, and ends; results holds exactly one result for each
\* warp that is not skipped, in the order of the list, and none for a
\* skipped warp.
C12_NoAbort == []C12_State /\ [][C12_Step]_vars /\ <>(pc = "done")

\* A finished run of three warps: the first skipped for a feet index out
\* of range, the second for a missing block, the third classified
C12_Witness ==
    /\ pc = "done" /\ Len(warps) = 3
    /\ BlocksOf(warps[1]) # {} /\ MustSkip(warps[1])
    /\ BlocksOf(warps[2]) = {}
    /\ ~MustSkip(warps[3])
    /\ Len(results) = 1
    /\ SameWarp(results[1], warps[3])

\* The (x, y) of the warps of the destination map, in the order of creation
DestPairs == [k \in 1..Len(DestList) |-> <<DestList[k].x, DestList[k].y>>]

\* C13 (destination ordinal): dest_warp_index counts from 1 in the list of
\* the destination map's warps in the order of their creation (row id), not
\* of their position: an index k with 1 <= k <= len selects the k-th created
\* warp, and the direction is computed from its (x, y) and the destination
\* map's size in tiles alone.
C13_DestOrdinal ==
    Carpet =>
        /\ (DestMaps # {}) =>
              /\ dest_info = <<DestMap.id, DestWidth, DestHeight>>
              /\ dest_warps = DestPairs
        /\ DestResolves =>
              /\ dir_method = "dest_warp"
              /\ direction = infer_carpet_direction_from_dest(
                                 DestRow.x, DestRow.y, DestWidth, DestHeight)
              /\ LastResult.direction = direction

\* A carpet warp to the first created warp of MAP_B, which stands at the
\* right edge although the second created one comes first by position
C13_Witness ==
    /\ Carpet
    /\ Cur.dest_map = "MAP_B" /\ Cur.dest_warp_index = 1
    /\ Len(DestList) = 2
    /\ DestList[2].x < DestList[1].x
    /\ dest_warps = << <<5, 1>>, <<0, 3>> >>
    /\ dir_method = "dest_warp"
    /\ direction = "LEFT"
    /\ infer_carpet_direction_from_dest(0, 3, DestWidth, DestHeight) # "LEFT"

\* The tiles a table lists for the tileset t, none if it does not name t
ListedIn(table, t) ==
    IF t \in DOMAIN table THEN {table[t][k] : k \in 1..Len(table[t])} ELSE {}
NoRuleTiles(t) == ListedIn(DOOR_TILE_IDS, t) = {} /\ ListedIn(WARP_TILE_IDS, t) = {}
\* Every tile some table lists for some tileset, and the tiles 0 and 255
RuleTiles ==
    UNION {ListedIn(DOOR_TILE_IDS, t) : t \in DOMAIN DOOR_TILE_IDS}
    \cup UNION {ListedIn(WARP_TILE_IDS, t) : t \in DOMAIN WARP_TILE_IDS}
    \cup {0, 255}

\* C14 (absent tilesets): a tileset that door_tiles does not name has no
\* door tiles, and likewise for warp_tiles; a warp with a resolved feet tile
\* on a tileset that neither table names, or that is named with an empty
\* list only (as 14 and 21), is a carpet whatever its feet tile.
C14_AbsentTileset ==
    Classified =>
        /\ (warp_type = "door") <=>
              \/ feet_tile_id[1] \in ListedIn(DOOR_TILE_IDS, Cur.tileset_id)
              \/ feet_tile_id[1] \in ListedIn(WARP_TILE_IDS, Cur.tileset_id)
        /\ NoRuleTiles(Cur.tileset_id) =>
              /\ warp_type = "carpet"
              /\ LastResult.warp_type = "carpet"
              /\ \A tile \in RuleTiles :
                    ~is_door_or_warp_tile(tile, Cur.tileset_id)
              /\ \A tile \in RuleTiles : ~is_door_or_warp_tile(tile, 21)

\* A warp of tileset 24, which no table names, standing on the tile that
\* is a door of the overworld, classified carpet
C14_Witness ==
    /\ Classified
    /\ Cur.tileset_id = 24
    /\ Cur.tileset_id \notin DOMAIN DOOR_TILE_IDS
    /\ Cur.tileset_id \notin DOMAIN WARP_TILE_IDS
    /\ feet_tile_id = <<27>>
    /\ 27 \in ListedIn(DOOR_TILE_IDS, 0)
    /\ warp_type = "carpet"
    /\ LastResult.warp_type = "carpet"

\* The edge of its own map the warp of the last iteration stands on, as the
\* module's documentation lists them: top, bottom, left, right
OwnEdge ==
    CASE Cur.y = 0 -> "top"
      [] Cur.y # 0 /\ Cur.y = OwnHeight - 1 -> "bottom"
      [] Cur.y # 0 /\ Cur.y # OwnHeight - 1 /\ Cur.x = 0 -> "left"
      [] Cur.y # 0 /\ Cur.y # OwnHeight - 1 /\ Cur.x # 0
           /\ Cur.x = OwnWidth - 1 -> "right"
      [] OTHER -> "interior"

\* C15 (module documentation): a carpet warp standing inside its own map on
\* an edge of it has the direction of that edge (y = 0 UP, y = max_y DOWN,
\* x = 0 LEFT, x = max_x RIGHT), and the direction is inferred from the
\* destination for warps at interior positions only.
C15_EdgePositionDecides ==
    (Carpet /\ InsideMap(Cur.x, Cur.y, OwnWidth, OwnHeight)) =>
        /\ OwnEdge # "interior" => direction = DirectOf(OwnEdge)
        /\ dir_method = "dest_warp" => OwnEdge = "interior"

(***************************************************************************)
(* The classification of a warp computed from the warp and the tables      *)
(* alone, with no cache and no variable of the loop.                       *)
(***************************************************************************)
\* What the two queries give without a cache
MapInfoOf(map_name) ==
    LET r == SelectMap(map_name)
    IN  IF r # None THEN <<r[1], r[2] * 2, r[3] * 2>> ELSE None
WarpEventsOf(map_id) == SelectWarpEvents(warp_events, map_id)

RefType(w) ==
    IF FeetOf(w) \in ListedIn(DOOR_TILE_IDS, w.tileset_id)
                       \cup ListedIn(WARP_TILE_IDS, w.tileset_id)
    THEN "door" ELSE "carpet"
RefResolves(w) ==
    /\ MapInfoOf(w.dest_map) # None
    /\ 1 <= w.dest_warp_index
    /\ w.dest_warp_index <= Len(WarpEventsOf(MapInfoOf(w.dest_map)[1]))
RefDirection(w) ==
    IF RefType(w) = "door" THEN NoneStr
    ELSE IF RefResolves(w)
    THEN LET di == MapInfoOf(w.dest_map)
             dw == WarpEventsOf(di[1])[w.dest_warp_index]
         IN  infer_carpet_direction_from_dest(dw[1], dw[2], di[2], di[3])
    ELSE infer_carpet_direction_from_edge(w.x, w.y, w.map_width * 2,
                                          w.map_height * 2)
RefMethod(w) ==
    IF RefType(w) = "door" THEN NoneStr
    ELSE IF RefResolves(w) THEN "dest_warp" ELSE "edge"
Reference(w) ==
    [warp_type |-> RefType(w), direction |-> RefDirection(w),
     dir_method |-> RefMethod(w)]
ClassOf(r) ==
    [warp_type |-> r.warp_type, direction |-> r.direction,
     dir_method |-> r.dir_method]

\* C16 (cache transparency): every entry of the two caches is what the
\* query gives without a cache, None for a name that is no map included;
\* the destination data the last carpet warp used are those the queries
\* give, and its classification is the one computed without any cache.
C16_CacheTransparent ==
    /\ \A n \in DOMAIN map_info_cache : map_info_cache[n] = MapInfoOf(n)
    /\ \A m \in DOMAIN warp_events_cache :
          warp_events_cache[m] = WarpEventsOf(m)
    /\ Carpet =>
          /\ dest_info = MapInfoOf(Cur.dest_map)
          /\ dest_info # None => dest_warps = WarpEventsOf(dest_info[1])
          /\ Cur.dest_map \in DOMAIN map_info_cache
          /\ ClassOf(LastResult) = Reference(Cur)

\* The third warp, served from both caches after the second warp filled
\* them for the same destination; the name LAST_MAP is cached as no map
C16_Witness ==
    /\ Carpet /\ i = 3
    /\ warps[2].dest_map = Cur.dest_map
    /\ ~MustSkip(warps[2]) /\ RefType(warps[2]) = "carpet"
    /\ "LAST_MAP" \in DOMAIN map_info_cache
    /\ map_info_cache["LAST_MAP"] = None
    /\ dest_info # None
    /\ dest_info[1] \in DOMAIN warp_events_cache
    /\ dir_method = "dest_warp"
    /\ ClassOf(LastResult) = Reference(Cur)

\* The warps of the list before the n-th that are skipped, and those that
\* are classified carpet
SkippedBefore(n) == {k \in 1..(n - 1) : MustSkip(warps[k])}
CarpetsBefore(n) ==
    {k \in 1..(n - 1) : ~MustSkip(warps[k]) /\ RefType(warps[k]) = "carpet"}

\* C17 (warp independence): wherever a warp stands in the list, and whatever
\* warps were taken before it (skipped, classified, or leaving their
\* destinations in the caches), its classification is the one that the
\* warp and the tables alone determine.
C17_WarpIndependence ==
    pc # "start" =>
        /\ Len(results) = Len(KeptSeq(i))
        /\ \A k \in 1..Len(results) :
              /\ SameWarp(results[k], KeptSeq(i)[k])
              /\ ClassOf(results[k]) = Reference(KeptSeq(i)[k])

\* The last of three warps takes its direction from its destination, after
\* a warp that was skipped and a carpet warp that fell back to its own edge
\* for another direction and left the destination in the caches
C17_Witness ==
    /\ Carpet /\ i = 3
    /\ SkippedBefore(3) # {}
    /\ \E k \in CarpetsBefore(3) :
          /\ RefMethod(warps[k]) = "edge"
          /\ RefDirection(warps[k]) # RefDirection(Cur)
          /\ warps[k].dest_map = Cur.dest_map
    /\ Cur.dest_map \in DOMAIN map_info_cache
    /\ dir_method = "dest_warp"
    /\ ClassOf(LastResult) = Reference(Cur)

\* A step keeps every entry of a cache
CacheKept(before, after) ==
    \A k \in DOMAIN before : k \in DOMAIN after /\ after[k] = before[k]

\* A step leaves the tables and the fetched list as they are, keeps what
\* the caches and results hold, and appends at most the result of the warp
\* it took, which the warp and the tables determine
C19_Step ==
    /\ maps' = maps /\ warp_events' = warp_events
    /\ tiles_raw' = tiles_raw /\ blocksets' = blocksets
    /\ pc # "start" => warps' = warps
    /\ CacheKept(map_info_cache, map_info_cache')
    /\ CacheKept(warp_events_cache, warp_events_cache')
    /\ \/ results' = results
       \/ /\ pc = "loop" /\ i < Len(warps)
          /\ Len(results') = Len(results) + 1
          /\ SubSeq(results', 1, Len(results)) = results
          /\ SameWarp(results'[Len(results')], warps[i + 1])
          /\ ClassOf(results'[Len(results')]) = Reference(warps[i + 1])
    /\ (pc' = "done" /\ pc = "loop") =>
          /\ map_info_cache' = map_info_cache
          /\ warp_events_cache' = warp_events_cache

\* C19 (inputs are read-only): classifying the warps of the list leaves the
\* warp records, the block data, the map geometry and the destination warp
\* lists unchanged; only the caches and the result list change, by growing,
\* and a result appended is determined by its warp and the tables, not by
\* the results before it.
C19_ReadOnly == [][C19_Step]_vars

\* A finished run with three results and filled caches, in which the query
\* for the warps still gives the list fetched at the start
C19_Witness ==
    /\ pc = "done"
    /\ Len(results) = 3
    /\ DOMAIN map_info_cache # {}
    /\ DOMAIN warp_events_cache # {}
    /\ SelectWarps = warps
    /\ \A m \in DOMAIN warp_events_cache :
          warp_events_cache[m] = WarpEventsOf(m)

\* The warp w on a map of the other kind
OtherKind(w) == [w EXCEPT !.is_overworld = ~w.is_overworld]
\* The statements of the migration for the result r
StatementsFor(r) ==
    {n \in 1..Len(migration) :
        /\ migration[n].local_x = r.x /\ migration[n].local_y = r.y
        /\ r.map_id \in {migration[n].source_map_id,
                          migration[n].join_map_id}}

\* C20 (overworld flag): the flag of the warp's map has no part in the
\* classification: each result carries the warp_type, direction and method
\* that the same warp on a map of the other kind gets; the flag decides
\* only the key of the statement emitted for a carpet: source_map_id of the
\* map for an interior, 9999 and the join on the map's tiles for the
\* overworld.
C20_FlagKeysOnly ==
    pc # "start" =>
        /\ \A k \in 1..Len(results) :
              /\ results[k].is_overworld = KeptSeq(i)[k].is_overworld
              /\ ClassOf(results[k]) = Reference(OtherKind(KeptSeq(i)[k]))
        /\ pc = "done" =>
              /\ Len(migration) = CountResults("warp_type", "carpet")
              /\ \A k \in 1..Len(results) :
                    IF results[k].warp_type = "carpet"
                    THEN \E n \in StatementsFor(results[k]) :
                           /\ StatementsFor(results[k]) = {n}
                           /\ migration[n].warp_direction
                                 = RefDirection(OtherKind(KeptSeq(i)[k]))
                           /\ migration[n].source_map_id
                                 = IF results[k].is_overworld THEN 9999
                                   ELSE results[k].map_id
                           /\ migration[n].join_map_id
                                 = IF results[k].is_overworld
                                   THEN results[k].map_id ELSE 0
                    ELSE StatementsFor(results[k]) = {}

\* A finished run with a carpet of the overworld and a carpet of an
\* interior that have the same direction by the same method, keyed apart
C20_Witness ==
    /\ pc = "done"
    /\ \E j \in 1..Len(results), k \in 1..Len(results) :
          /\ results[j].is_overworld /\ ~results[k].is_overworld
          /\ results[j].warp_type = "carpet"
          /\ ClassOf(results[j]) = ClassOf(results[k])
          /\ \E n \in StatementsFor(results[j]) :
                migration[n].source_map_id = 9999
          /\ \E n \in StatementsFor(results[k]) :
                migration[n].source_map_id = results[k].map_id

(***************************************************************************)
(* The claims about reprocess.py.                                          *)
(***************************************************************************)
\* The steps 1 to 16 of the module's documentation
DocumentedOrder ==
    << "export_map.py", "export_warps.py", "update_zone_coordinates.py",
       "create_zones_and_tiles.py", "export_objects.py",
       "update_object_coordinates.py", "export_pokemon.py",
       "export_moves.py", "export_items.py", "export_text.py",
       "export_learnsets.py", "export_wild_encounters.py",
       "export_trainers.py", "export_hidden_objects.py",
       "export_map_scripts.py", "generate_mysql_seed.py" >>
Ran(list) == {list[k] : k \in 1..Len(list)}
\* The place of a script among those started, 0 if it was not started
PlaceOf(name) ==
    IF name \in Ran(started)
    THEN CHOOSE k \in 1..Len(started) : started[k] = name
    ELSE 0

\* C21 (pipeline order): the scripts are started one at a time in the
\* listed order, each after all those before it have exited with status 0;
\* update_zone_coordinates.py runs after export_map.py and before
\* create_zones_and_tiles.py, and generate_mysql_seed.py after every other
\* script.
C21_PipelineOrder ==
    /\ Len(started) <= Len(DocumentedOrder)
    /\ \A k \in 1..Len(started) : started[k] = DocumentedOrder[k]
    /\ Len(succeeded) <= Len(started)
    /\ Len(started) <= Len(succeeded) + 1
    /\ \A k \in 1..Len(succeeded) : succeeded[k] = started[k]
    /\ (at = "script") => Len(started) = Len(succeeded) + 1
    /\ (at = "main") => Len(started) = Len(succeeded)
    /\ "update_zone_coordinates.py" \in Ran(started) =>
          "export_map.py" \in Ran(succeeded)
    /\ "create_zones_and_tiles.py" \in Ran(started) =>
          /\ "update_zone_coordinates.py" \in Ran(succeeded)
          /\ PlaceOf("export_map.py") < PlaceOf("update_zone_coordinates.py")
          /\ PlaceOf("update_zone_coordinates.py")
                < PlaceOf("create_zones_and_tiles.py")
    /\ "generate_mysql_seed.py" \in Ran(started) =>
          /\ Ran(DocumentedOrder) \ {"generate_mysql_seed.py"}
                \subseteq Ran(succeeded)
          /\ PlaceOf("generate_mysql_seed.py") = Len(started)

\* The last script running after the fifteen others have succeeded
C21_Witness ==
    /\ at = "script"
    /\ Len(started) = 16 /\ Len(succeeded) = 15
    /\ started[16] = "generate_mysql_seed.py"
    /\ started[1] = "export_map.py"
    /\ started[3] = "update_zone_coordinates.py"
    /\ started[4] = "create_zones_and_tiles.py"

\* A script has exited with an error: it was started, it is not running
\* any more and it is not among those that succeeded
SomeScriptFailed ==
    /\ at # "script"
    /\ \E k \in 1..Len(started) : started[k] \notin Ran(succeeded)

\* C22 (fail-fast): once a script has exited with an error the pipeline has
\* exited with status 1 at that script: no later script was started, the
\* database was not copied, the import was not started and the final
\* message was not printed.
C22_FailFast ==
    SomeScriptFailed =>
        /\ at = "exited"
        /\ exit_status = <<1>>
        /\ Len(started) = Len(succeeded) + 1
        /\ started[Len(started)] \notin Ran(succeeded)
        /\ ~copied
        /\ ~import_started
        /\ ~import_succeeded
        /\ ~printed_success

\* The third script failed on a machine where the copy and the import
\* would have been possible
C22_Witness ==
    /\ SomeScriptFailed
    /\ env.db_exists /\ env.phaser_dir_exists
    /\ env.server_dir_exists /\ env.go_found
    /\ started = SubSeq(scripts, 1, 3)
    /\ succeeded = SubSeq(scripts, 1, 2)
    /\ at = "exited"
    /\ exit_status = <<1>>
    /\ ~copied /\ ~import_started

\* C23 (final message): the message 'All reprocessing steps completed
\* successfully' is printed only in runs in which every listed script ran
\* and succeeded, pokemon.db was copied to the CaptureQuest folder and the
\* MySQL import ran and succeeded.
C23_SuccessMeansAllSteps ==
    printed_success =>
        /\ succeeded = scripts
        /\ copied
        /\ import_started
        /\ import_succeeded

\* The import is not started where no copy was made
C24_State ==
    /\ import_started =>
          /\ succeeded = scripts
          /\ copied
          /\ env.db_exists /\ env.phaser_dir_exists
    /\ at \in {"import", "go"} => copied /\ succeeded = scripts
    /\ import_succeeded => import_started
    /\ (~env.db_exists \/ ~env.phaser_dir_exists) =>
          /\ ~copied
          /\ ~import_started
          /\ at \notin {"import", "go"}

\* The import starts in a step taken after the copy and after the last
\* script succeeded, and the copy after the last script succeeded
C24_Step ==
    /\ (import_started' /\ ~import_started) =>
          copied /\ succeeded = scripts /\ at = "import"
    /\ (copied' /\ ~copied) => succeeded = scripts /\ ~import_started'

\* C24 (import after copy): the MySQL import is started only after every
\* script has succeeded and pokemon.db has actually been copied; where the
\* copy is skipped for want of the CaptureQuest directory, or the pipeline
\* exits for want of pokemon.db, the import is never started.
C24_ImportAfterCopy == []C24_State /\ [][C24_Step]_vars

\* The import running, after the copy and the sixteen scripts
C24_Witness ==
    /\ at = "go"
    /\ import_started /\ copied
    /\ succeeded = scripts
    /\ exit_status = None

\* A run that skipped the copy has ended without an import
C24_SkippedWitness ==
    /\ at = "exited" /\ exit_status = <<0>>
    /\ succeeded = scripts
    /\ env.db_exists /\ ~env.phaser_dir_exists
    /\ env.server_dir_exists /\ env.go_found
    /\ ~copied /\ ~import_started

(***************************************************************************)
(* The claims about the report of classify_warps.py and its functions.     *)
(***************************************************************************)
\* The warps of the list that are not skipped and whose classification,
\* computed from the tables, has the value v in the field f
KeptWith(f, v) ==
    {k \in 1..Len(warps) :
        ~MustSkip(warps[k]) /\ Reference(warps[k])[f] = v}

\* C25 (diagnostic counts): in the report the total is the door count plus
\* the carpet count, the carpet count is the dest_warp count plus the edge
\* count, and a skipped warp is counted in none of them.
C25_CountsConsistent ==
    pc = "done" =>
        /\ summary # None
        /\ summary[1].total = summary[1].door_count + summary[1].carpet_count
        /\ summary[1].carpet_count
              = summary[1].dest_count + summary[1].edge_count
        /\ summary[1].total = Len(KeptSeq(Len(warps)))
        /\ summary[1].door_count = Cardinality(KeptWith("warp_type", "door"))
        /\ summary[1].carpet_count
              = Cardinality(KeptWith("warp_type", "carpet"))
        /\ summary[1].dest_count
              = Cardinality(KeptWith("dir_method", "dest_warp"))
        /\ summary[1].edge_count = Cardinality(KeptWith("dir_method", "edge"))

\* The report of a batch with a skipped warp, a door, a carpet by its
\* destination and none by its edge
C25_Witness ==
    /\ pc = "done" /\ Len(warps) = 3
    /\ \E k \in 1..3 : MustSkip(warps[k])
    /\ summary[1] = [total |-> 2, door_count |-> 1, carpet_count |-> 1,
                     dest_count |-> 1, edge_count |-> 0]

\* The UPDATE statements that reach the row of the warp w: by
\* source_map_id and x, y, or by the join on the tiles of its map with
\* source_map_id 9999
ReachedBy(n, w) ==
    /\ migration[n].local_x = w.x /\ migration[n].local_y = w.y
    /\ IF migration[n].source_map_id = 9999
       THEN migration[n].join_map_id = w.map_id
       ELSE migration[n].source_map_id = w.map_id
StatementsOf(w) == {n \in 1..Len(migration) : ReachedBy(n, w)}
IsCarpet(w) == ~MustSkip(w) /\ RefType(w) = "carpet"

\* C26 (emitted migration): every warp classified carpet gets exactly one
\* UPDATE statement, which sets 'carpet' and its direction and is keyed by
\* source_map_id and x, y for a map that is not of the overworld and by
\* the join on local_x, local_y with source_map_id 9999 for one that is; a
\* door and a skipped warp get none.
C26_Migration ==
    pc = "done" =>
        /\ \A k \in 1..Len(warps) :
              IF IsCarpet(warps[k])
              THEN /\ Cardinality(StatementsOf(warps[k])) = 1
                   /\ \A n \in StatementsOf(warps[k]) :
                         /\ migration[n].warp_type = "carpet"
                         /\ migration[n].warp_direction
                               = RefDirection(warps[k])
                         /\ migration[n].warp_direction \in Directions
                         /\ (migration[n].source_map_id = 9999)
                               <=> warps[k].is_overworld
              ELSE StatementsOf(warps[k]) = {}
        /\ \A n \in 1..Len(migration) :
              \E k \in 1..Len(warps) : n \in StatementsOf(warps[k])

\* The migration of a batch with a carpet of the overworld, a carpet of an
\* interior and a skipped warp: two statements
C26_Witness ==
    /\ pc = "done" /\ Len(warps) = 3
    /\ \E j \in 1..3, k \in 1..3, m \in 1..3 :
          /\ IsCarpet(warps[j]) /\ warps[j].is_overworld
          /\ IsCarpet(warps[k]) /\ ~warps[k].is_overworld
          /\ MustSkip(warps[m])
    /\ Len(migration) = 2
    /\ migration[1].source_map_id # 9999
    /\ migration[2].source_map_id = 9999

\* The migration of a batch with a door: no statement for it
C26_DoorWitness ==
    /\ pc = "done"
    /\ \E k \in 1..Len(warps) :
          /\ ~MustSkip(warps[k]) /\ RefType(warps[k]) = "door"
          /\ StatementsOf(warps[k]) = {}
    /\ Len(migration) = 2

\* A function of the given kind has been applied
Returned(kind) == probe.kind = kind /\ Len(probe.out) > 0

\* C27 (hard-edge tests are redundant inside the map): for a position with
\* 0 <= x <= mw-1 and 0 <= y <= mh-1 on a map of mw >= 1 by mh >= 1 tiles,
\* infer_carpet_direction_from_edge returns the direction of the nearest
\* edge (least of the four distances, the first of top, bottom, left,
\* right among equals), mapped directly.
C27_HardEdgeRedundant ==
    (/\ Returned("edge")
     /\ probe.args[3] >= 1 /\ probe.args[4] >= 1
     /\ InsideMap(probe.args[1], probe.args[2], probe.args[3], probe.args[4]))
    => probe.out[1] = DirectOf(FirstNearestEdge(probe.args[1], probe.args[2],
                                                probe.args[3], probe.args[4]))

\* On a map one tile high the position is on the top and on the bottom
\* edge; both are nearest, and the result is UP
C27_Witness ==
    /\ Returned("edge")
    /\ probe.args = <<1, 0, 3, 1>>
    /\ NearestEdges(1, 0, 3, 1) = {"top", "bottom"}
    /\ probe.out = <<"UP">>

\* C28 (door tiles are warp tiles): for every tileset the tiles door_tiles
\* lists are among those warp_tiles lists, so is_door_or_warp_tile(tile, t)
\* is the membership of tile in warp_tiles[t] alone.
C28_DoorSubsetOfWarp ==
    Returned("tile") =>
        /\ ListedIn(DOOR_TILE_IDS, probe.args[2])
              \subseteq ListedIn(WARP_TILE_IDS, probe.args[2])
        /\ probe.out[1]
              = (probe.args[1] \in ListedIn(WARP_TILE_IDS, probe.args[2]))

\* The door tile 0x3A of tileset 3, which warp_tiles lists after two
\* tiles that are no door tiles
C28_Witness ==
    /\ Returned("tile")
    /\ probe.args = <<58, 3>>
    /\ ListedIn(DOOR_TILE_IDS, 3) = {58}
    /\ ListedIn(WARP_TILE_IDS, 3) = {90, 92, 58}
    /\ probe.out = <<TRUE>>

\* The targets of the remap
RemapTargets == {TILESET_REMAP[t] : t \in DOMAIN TILESET_REMAP}
\* The tileset that following the remap as long as it applies ends at
RECURSIVE FinalTileset(_, _)
FinalTileset(t, fuel) ==
    IF t \notin DOMAIN TILESET_REMAP \/ fuel = 0 THEN t
    ELSE FinalTileset(TILESET_REMAP[t], fuel - 1)

\* C29 (the remap is idempotent): no target of the remap is a remapped
\* tileset, so remap(remap(t)) = remap(t) for every tileset t, and the
\* one application main makes gives the final graphics tileset.
C29_RemapIdempotent ==
    Returned("remap") =>
        /\ RemapTargets \cap DOMAIN TILESET_REMAP = {}
        /\ LookupTileset(probe.out[1]) = probe.out[1]
        /\ probe.out[1] \notin DOMAIN TILESET_REMAP
        /\ probe.out[1]
              = FinalTileset(probe.args[1], Cardinality(DOMAIN TILESET_REMAP))

\* The remapped tileset 4, whose graphics are those of tileset 1
C29_Witness ==
    /\ Returned("remap")
    /\ probe.args = <<4>>
    /\ probe.out = <<1>>
    /\ 4 \in DOMAIN TILESET_REMAP
    /\ 1 \notin DOMAIN TILESET_REMAP

\* C30 (quadrant position): for all integers x and y, negative ones
\* included, (x mod 2) + 2*(y mod 2) is one of 0, 1, 2, 3, so the lookup of
\* the feet index is defined and gives one of 4, 6, 12, 14.
C30_QuadrantDefined ==
    Returned("quadrant") =>
        /\ probe.out[1] \in {0, 1, 2, 3}
        /\ probe.out[1] \in DOMAIN feet_indices
        /\ Len(probe.out[2]) = 1
        /\ probe.out[2][1] \in {4, 6, 12, 14}
        /\ probe.out[2][1] = FeetCell(probe.out[1])
        /\ (probe.out[1] % 2 = 1) <=> (probe.args[1] % 2 = 1)
        /\ (probe.out[1] >= 2) <=> (probe.args[2] % 2 = 1)

\* The warp at (-1, -3): both remainders are 1, the quadrant is 3 and the
\* feet index 14
C30_Witness ==
    /\ Returned("quadrant")
    /\ probe.args = <<-1, -3>>
    /\ probe.out = <<3, <<14>> >>

====
